---- MODULE Spec2Model ----
(***************************************************************************)
(* A model of ladybug: the Bughouse position (src/src/board.rs) on top of  *)
(* a rules engine, and the MCTS arena tree (src/src/engine.rs).            *)
(*                                                                         *)
(* The rules engine (shakmaty's Chess) is an external collaborator.  It is *)
(* modelled here as chess on a reduced board of NumFiles x NumRanks        *)
(* squares with the usual piece movement, check, promotion, en passant and *)
(* one castling side, so that every kind of Move the Bughouse code matches *)
(* on is produced.  The half-move and full-move counters are left out:     *)
(* no code of the repository reads them.                                   *)
(***************************************************************************)
EXTENDS Integers, Sequences, FiniteSets, TLC

VARIABLES
    nodes,   \* Tree.nodes: the arena, a sequence of Node records
    pos,     \* a Bughouse position being played
    plies,   \* number of moves played on pos
    setup,   \* the Setup handed to from_setup
    made,    \* the Result of from_setup
    calls,   \* number of operations performed on the tree
    last     \* the last operation performed, with its arguments and result

vars == <<nodes, pos, plies, setup, made, calls, last>>

----------------------------------------------------------------------------
(* Bounds of the model.                                                    *)

NumFiles == 4
NumRanks == 5
MaxPlies == 2
MaxCalls == 3
MaxChildren == 3
MaxSims == 2

(* Constants of the program.                                               *)

\* board.rs: the capacity of the board that pockets plus pieces may not exceed
BoardCapacity == 64
\* board.rs: the number of pawns that board plus pockets may not exceed
MaxPawns == 32
\* engine.rs: exploration_constant = 1.414, in thousandths
ExplorationMilli == 1414

----------------------------------------------------------------------------
(* Board geometry.                                                         *)

NumSquares == NumFiles * NumRanks
Squares == 0 .. (NumSquares - 1)
NoSquare == 0 - 1
File(s) == s % NumFiles
Rank(s) == s \div NumFiles
Sq(f, r) == r * NumFiles + f

Abs(x) == IF x < 0 THEN 0 - x ELSE x
Sgn(x) == IF x < 0 THEN 0 - 1 ELSE IF x > 0 THEN 1 ELSE 0
Max(a, b) == IF a > b THEN a ELSE b

White == "White"
Black == "Black"
Colors == {White, Black}
\* impl Not for Color
Not(c) == IF c = White THEN Black ELSE White

Roles == {"Pawn", "Knight", "Bishop", "Rook", "Queen", "King"}
NoRole == "None"
Empty == [color |-> "None", role |-> NoRole, promoted |-> FALSE]
Piece(c, r, p) == [color |-> c, role |-> r, promoted |-> p]

\* Bitboard::BACKRANKS: the first and the last rank
BACKRANKS == {s \in Squares : Rank(s) = 0 \/ Rank(s) = NumRanks - 1}

BackRank(c) == IF c = White THEN 0 ELSE NumRanks - 1
PawnRank(c) == IF c = White THEN 1 ELSE NumRanks - 2
LastRank(c) == IF c = White THEN NumRanks - 1 ELSE 0
Forward(c) == IF c = White THEN 1 ELSE 0 - 1
KingHomeFile == NumFiles - 4
RookHomeFile == NumFiles - 1

Aligned(a, b) ==
    /\ a # b
    /\ \/ File(a) = File(b)
       \/ Rank(a) = Rank(b)
       \/ Abs(File(a) - File(b)) = Abs(Rank(a) - Rank(b))

\* attacks::between: the squares strictly between two aligned squares
Between(a, b) ==
    IF ~Aligned(a, b) THEN {}
    ELSE LET df == Sgn(File(b) - File(a))
             dr == Sgn(Rank(b) - Rank(a))
             n == Max(Abs(File(b) - File(a)), Abs(Rank(b) - Rank(a)))
         IN {Sq(File(a) + k * df, Rank(a) + k * dr) : k \in 1 .. (n - 1)}

RECURSIVE ConcatRange(_, _, _)
ConcatRange(F(_), lo, hi) ==
    IF lo > hi THEN <<>> ELSE F(lo) \o ConcatRange(F, lo + 1, hi)

SeqToSet(s) == {s[i] : i \in 1 .. Len(s)}

----------------------------------------------------------------------------
(* The rules engine: Chess.                                                *)

\* whether the piece on `from` attacks the square `to`
PieceAttacks(board, from, to) ==
    LET p == board[from]
        df == File(to) - File(from)
        dr == Rank(to) - Rank(from)
        clear == \A s \in Between(from, to) : board[s] = Empty
    IN /\ from # to
       /\ CASE p.role = "Pawn" -> Abs(df) = 1 /\ dr = Forward(p.color)
            [] p.role = "Knight" -> {Abs(df), Abs(dr)} = {1, 2}
            [] p.role = "King" -> Abs(df) <= 1 /\ Abs(dr) <= 1
            [] p.role = "Rook" -> (df = 0 \/ dr = 0) /\ clear
            [] p.role = "Bishop" -> Abs(df) = Abs(dr) /\ clear
            [] p.role = "Queen" -> Aligned(from, to) /\ clear
            [] OTHER -> FALSE

Attackers(board, sq, by) ==
    {s \in Squares : board[s].color = by /\ PieceAttacks(board, s, sq)}

\* Board::king_of
KingOf(board, c) ==
    LET ks == {s \in Squares : board[s].color = c /\ board[s].role = "King"}
    IN IF ks = {} THEN NoSquare ELSE CHOOSE s \in ks : TRUE

\* Position::checkers: the pieces giving check to the side to move
Checkers(chess) ==
    LET k == KingOf(chess.board, chess.turn)
    IN IF k = NoSquare THEN {} ELSE Attackers(chess.board, k, Not(chess.turn))

Move(kind, role, from, to, capture, promotion) ==
    [kind |-> kind, role |-> role, from |-> from, to |-> to,
     capture |-> capture, promotion |-> promotion]

\* Board::promoted
Promoted(board) == {s \in Squares : board[s].promoted}

\* the board after a move (do_move of the rules engine)
BoardAfter(board, turn, m) ==
    CASE m.kind = "Normal" ->
            LET promoted == board[m.from].promoted \/ m.promotion # NoRole
                role == IF m.promotion # NoRole THEN m.promotion ELSE m.role
            IN [board EXCEPT ![m.from] = Empty,
                             ![m.to] = Piece(turn, role, promoted)]
      [] m.kind = "EnPassant" ->
            [board EXCEPT ![Sq(File(m.to), Rank(m.from))] = Empty,
                          ![m.from] = Empty,
                          ![m.to] = Piece(turn, "Pawn", FALSE)]
      [] m.kind = "Castle" ->
            \* from is the king's square, to the rook's
            [board EXCEPT ![m.from] = Empty,
                          ![m.to] = Empty,
                          ![m.from + 2] = Piece(turn, "King", FALSE),
                          ![m.from + 1] = Piece(turn, "Rook", FALSE)]
      [] m.kind = "Put" ->
            [board EXCEPT ![m.to] = Piece(turn, m.role, FALSE)]

\* Chess::play_unchecked
ChessPlayUnchecked(chess, m) ==
    LET turn == chess.turn
        homeRooks == {s \in chess.castling : Rank(s) = BackRank(turn)}
        castling ==
            CASE m.kind = "Castle" -> chess.castling \ homeRooks
              [] m.kind = "Normal" ->
                    ((IF m.role = "King" THEN chess.castling \ homeRooks
                      ELSE chess.castling) \ {m.from}) \ {m.to}
              [] OTHER -> chess.castling
        ep == IF /\ m.kind = "Normal"
                 /\ m.role = "Pawn"
                 /\ Abs(Rank(m.to) - Rank(m.from)) = 2
              THEN Sq(File(m.from), Rank(m.from) + Forward(turn))
              ELSE NoSquare
    IN [board |-> BoardAfter(chess.board, turn, m),
        turn |-> Not(turn),
        castling |-> castling,
        ep |-> ep]

\* the mover's king is not attacked once the move is made
KingSafeAfter(chess, m) ==
    LET b == BoardAfter(chess.board, chess.turn, m)
        k == KingOf(b, chess.turn)
    IN k = NoSquare \/ Attackers(b, k, Not(chess.turn)) = {}

PromotionRoles == <<"Queen", "Rook", "Bishop", "Knight">>

\* the Normal moves of the side to move from `from` to `to`, unfiltered
NormalCandidates(chess, from, to) ==
    LET b == chess.board
        p == b[from]
        c == chess.turn
        df == File(to) - File(from)
        dr == Rank(to) - Rank(from)
        cap == b[to].role
        reaches ==
            IF p.role = "Pawn"
            THEN \/ df = 0 /\ dr = Forward(c) /\ b[to] = Empty
                 \/ /\ df = 0 /\ dr = 2 * Forward(c)
                    /\ Rank(from) = PawnRank(c)
                    /\ b[to] = Empty
                    /\ b[Sq(File(from), Rank(from) + Forward(c))] = Empty
                 \/ PieceAttacks(b, from, to) /\ b[to].color = Not(c)
            ELSE PieceAttacks(b, from, to)
    IN IF p.color # c \/ from = to \/ b[to].color = c \/ ~reaches THEN <<>>
       ELSE IF p.role = "Pawn" /\ Rank(to) = LastRank(c)
       THEN [i \in 1 .. 4 |-> Move("Normal", "Pawn", from, to, cap, PromotionRoles[i])]
       ELSE <<Move("Normal", p.role, from, to, cap, NoRole)>>

\* Position::en_passant_moves, unfiltered
EnPassantCandidates(chess, from) ==
    LET b == chess.board
        c == chess.turn
    IN IF /\ chess.ep # NoSquare
          /\ b[from].color = c
          /\ b[from].role = "Pawn"
          /\ PieceAttacks(b, from, chess.ep)
       THEN <<Move("EnPassant", "Pawn", from, chess.ep, NoRole, NoRole)>>
       ELSE <<>>

\* Position::castling_moves
ChessCastlingMoves(chess) ==
    LET b == chess.board
        c == chess.turn
        king == Sq(KingHomeFile, BackRank(c))
        rook == Sq(RookHomeFile, BackRank(c))
    IN IF /\ rook \in chess.castling
          /\ b[king].color = c /\ b[king].role = "King"
          /\ b[rook].color = c /\ b[rook].role = "Rook"
          /\ \A s \in Between(king, rook) : b[s] = Empty
          /\ \A s \in {king, king + 1, king + 2} :
                Attackers([b EXCEPT ![king] = Empty], s, Not(c)) = {}
       THEN <<Move("Castle", "King", king, rook, NoRole, NoRole)>>
       ELSE <<>>

\* Chess::legal_moves, in the engine's enumeration order
ChessLegalMoves(chess) ==
    LET from1(from) ==
            IF chess.board[from].color # chess.turn THEN <<>>
            ELSE ConcatRange(LAMBDA to : NormalCandidates(chess, from, to),
                             0, NumSquares - 1)
                 \o EnPassantCandidates(chess, from)
        all == ConcatRange(from1, 0, NumSquares - 1)
    IN SelectSeq(all, LAMBDA m : KingSafeAfter(chess, m))
       \o ChessCastlingMoves(chess)

\* Chess::san_candidates: the legal moves of a piece of `role` to `to`,
\* castling left out
ChessSanCandidates(chess, role, to) ==
    LET from1(from) ==
            IF chess.board[from].color # chess.turn THEN <<>>
            ELSE SelectSeq(NormalCandidates(chess, from, to)
                           \o (IF to = chess.ep
                               THEN EnPassantCandidates(chess, from)
                               ELSE <<>>),
                           LAMBDA m : m.role = role /\ KingSafeAfter(chess, m))
    IN ConcatRange(from1, 0, NumSquares - 1)

----------------------------------------------------------------------------
(* board.rs: the Bughouse position, a Chess position plus the pockets.     *)

\* Material / MaterialSide: a count (u8) per role for each colour
NoMaterialSide == [r \in Roles |-> 0]
NoMaterial == [c \in Colors |-> NoMaterialSide]

RECURSIVE SumOver(_, _)
SumOver(f, S) ==
    IF S = {} THEN 0
    ELSE LET x == CHOOSE y \in S : TRUE IN f[x] + SumOver(f, S \ {x})

\* MaterialSide::count and Material::count
SideCount(side) == SumOver(side, Roles)
MaterialCount(pockets) == SideCount(pockets[White]) + SideCount(pockets[Black])

\* Board::occupied and Board::pawns
Occupied(board) == {s \in Squares : board[s] # Empty}
Pawns(board) == {s \in Squares : board[s].role = "Pawn"}

\* u8 arithmetic of the pocket counts (wrapping, as in a release build)
U8Add(x, d) == (x + d) % 256

Bughouse(chess, pockets) == [chess |-> chess, pockets |-> pockets]

\* Setup::turn for Bughouse
Turn(p) == p.chess.turn

\* Bughouse::our_pocket
our_pocket(p) == p.pockets[Turn(p)]

\* drop targets that also hold the square of a single checker
legal_put_squaresOntoChecker(p) ==
    LET checkers == Checkers(p.chess)
    IN IF checkers = {} THEN Squares \ Occupied(p.chess.board)
       ELSE IF Cardinality(checkers) = 1
       THEN LET checker == CHOOSE s \in checkers : TRUE
                king == KingOf(p.chess.board, p.chess.turn)
            IN Between(checker, king) \cup {checker}
       ELSE {}

\* Bughouse::legal_put_squares
legal_put_squares(p) ==
    LET checkers == Checkers(p.chess)
    IN IF checkers = {} THEN Squares \ Occupied(p.chess.board)
       ELSE IF Cardinality(checkers) = 1
       THEN LET checker == CHOOSE s \in checkers : TRUE
                king == KingOf(p.chess.board, Turn(p))
            IN Between(checker, king)
       ELSE {}

\* a capture that credits the role the piece shows, promoted or not
CapturedRoleAsShown(p, m) == m.capture

\* the role credited for a capture on m.to (play_unchecked, Move::Normal arm)
CapturedRole(p, m) ==
    IF m.to \in Promoted(p.chess.board) THEN "Pawn" ELSE m.capture

\* a pocket update that forgets to debit a Put
PocketsAfterNoPutDebit(p, m) ==
    LET turn == p.chess.turn
    IN CASE m.kind = "Normal" /\ m.capture # NoRole ->
               [p.pockets EXCEPT ![turn][CapturedRole(p, m)] = (@ + 1) % 256]
         [] m.kind = "EnPassant" ->
               [p.pockets EXCEPT ![turn]["Pawn"] = (@ + 1) % 256]
         [] OTHER -> p.pockets

\* a pocket update that debits a Put from the pocket of the side not moving
PocketsAfterPutDebitsOther(p, m) ==
    LET turn == p.chess.turn
    IN CASE m.kind = "Normal" /\ m.capture # NoRole ->
               [p.pockets EXCEPT ![turn][CapturedRole(p, m)] = (@ + 1) % 256]
         [] m.kind = "EnPassant" ->
               [p.pockets EXCEPT ![turn]["Pawn"] = (@ + 1) % 256]
         [] m.kind = "Put" ->
               [p.pockets EXCEPT ![Not(turn)][m.role] = (@ + 255) % 256]
         [] OTHER -> p.pockets

\* a pocket update that credits a capture to the side that lost the piece
PocketsAfterCreditsOther(p, m) ==
    LET turn == p.chess.turn
    IN CASE m.kind = "Normal" /\ m.capture # NoRole ->
               [p.pockets EXCEPT ![Not(turn)][CapturedRole(p, m)] = (@ + 1) % 256]
         [] m.kind = "EnPassant" ->
               [p.pockets EXCEPT ![Not(turn)]["Pawn"] = (@ + 1) % 256]
         [] m.kind = "Put" ->
               [p.pockets EXCEPT ![turn][m.role] = (@ + 255) % 256]
         [] OTHER -> p.pockets

\* the pockets after the pocket update of play_unchecked
PocketsAfter(p, m) ==
    LET turn == Turn(p)
    IN CASE m.kind = "Normal" /\ m.capture # NoRole ->
               [p.pockets EXCEPT ![turn][CapturedRole(p, m)] = U8Add(@, 1)]
         [] m.kind = "EnPassant" ->
               [p.pockets EXCEPT ![turn]["Pawn"] = U8Add(@, 1)]
         [] m.kind = "Put" ->
               [p.pockets EXCEPT ![turn][m.role] = U8Add(@, 0 - 1)]
         [] OTHER -> p.pockets

\* Position::play_unchecked for Bughouse
play_unchecked(p, m) ==
    Bughouse(ChessPlayUnchecked(p.chess, m), PocketsAfter(p, m))

PutRoles == <<"Knight", "Bishop", "Rook", "Queen">>

\* Put moves of the four piece roles whether the pocket holds them or not
PiecePutsUnheld(pocket, to) ==
    LET one(i) == <<Move("Put", PutRoles[i], NoSquare, to, NoRole, NoRole)>>
    IN ConcatRange(one, 1, 4)

\* the Put moves of the four piece roles on one target square
PiecePuts(pocket, to) ==
    LET one(i) == IF pocket[PutRoles[i]] > 0
                  THEN <<Move("Put", PutRoles[i], NoSquare, to, NoRole, NoRole)>>
                  ELSE <<>>
    IN ConcatRange(one, 1, 4)

\* the Put moves of a pawn
PawnPuts(pocket, targets) ==
    LET one(to) == IF to \in targets \ BACKRANKS
                   THEN <<Move("Put", "Pawn", NoSquare, to, NoRole, NoRole)>>
                   ELSE <<>>
    IN IF pocket["Pawn"] > 0 THEN ConcatRange(one, 0, NumSquares - 1) ELSE <<>>

\* Position::legal_moves for Bughouse
legal_moves(p) ==
    LET pocket == our_pocket(p)
        targets == legal_put_squares(p)
        puts(to) == IF to \in targets THEN PiecePuts(pocket, to) ELSE <<>>
    IN ChessLegalMoves(p.chess)
       \o ConcatRange(puts, 0, NumSquares - 1)
       \o PawnPuts(pocket, targets)

\* candidates that drop a pawn on any target square
san_candidatesAnyRank(p, role, to) ==
    ChessSanCandidates(p.chess, role, to)
    \o (IF p.pockets[p.chess.turn][role] > 0 /\ to \in legal_put_squares(p)
        THEN <<Move("Put", role, NoSquare, to, NoRole, NoRole)>>
        ELSE <<>>)

\* Position::san_candidates for Bughouse
san_candidates(p, role, to) ==
    ChessSanCandidates(p.chess, role, to)
    \o (IF /\ our_pocket(p)[role] > 0
           /\ to \in legal_put_squares(p)
           /\ (role # "Pawn" \/ to \notin BACKRANKS)
        THEN <<Move("Put", role, NoSquare, to, NoRole, NoRole)>>
        ELSE <<>>)

\* Position::play: play_unchecked once the move is known to be legal
play(p, m) == play_unchecked(p, m)

\* Result<Bughouse, BughousePositionError>
Ok(p) == [ok |-> TRUE, errors |-> {}, position |-> p]
Err(errors) ==
    [ok |-> FALSE, errors |-> errors,
     position |-> Bughouse([board |-> [s \in Squares |-> Empty], turn |-> White,
                            castling |-> {}, ep |-> NoSquare], NoMaterial)]

\* u8::saturating_add
SaturatingAddU8(a, b) == IF a + b > 255 THEN 255 ELSE a + b

\* Chess::from_setup(setup, mode): the verdict of the rules engine on the
\* board of the setup, the set of PositionErrorKinds it raises (empty: Ok)
ChessFromSetup(s) == s.base

\* the check of pockets against the board (from_setup, first if)
PocketErrors(chess, pockets) ==
    IF MaterialCount(pockets) + Cardinality(Occupied(chess.board)) > BoardCapacity
    THEN {"VARIANT"}
    ELSE IF pockets[White]["King"] > 0 \/ pockets[Black]["King"] > 0
    THEN {"TOO_MANY_KINGS"}
    ELSE {}

\* whether IMPOSSIBLE_MATERIAL is cleared (from_setup, second if)
ClearsImpossibleMaterial(chess, pockets) ==
    /\ MaterialCount(pockets) + Cardinality(Occupied(chess.board)) <= BoardCapacity
    /\ SaturatingAddU8(pockets[White]["Pawn"], pockets[Black]["Pawn"])
          + Cardinality(Pawns(chess.board)) <= MaxPawns

\* Bughouse::from_setup
from_setup(s) ==
    IF ChessFromSetup(s) # {} THEN Err(ChessFromSetup(s))
    ELSE LET chess == s.chess
             pockets == s.pockets
             errors0 == PocketErrors(chess, pockets)
             errors == IF ClearsImpossibleMaterial(chess, pockets)
                       THEN errors0 \ {"IMPOSSIBLE_MATERIAL"}
                       ELSE errors0
         IN IF errors # {} THEN Err(errors) ELSE Ok(Bughouse(chess, pockets))

----------------------------------------------------------------------------
(* engine.rs: the arena tree of the search.                                *)
(*                                                                         *)
(* NodeId(i) is the number i, the node it names is nodes[i + 1].  wins is  *)
(* an f32 that only ever grows by 1.0, 0.5 or 0.0: it is kept in halves,   *)
(* so wins = 3 stands for 1.5.  UCT scores are kept in thousandths, with   *)
(* NaN and f32::MAX as values of their own.                                *)

\* struct Node
Node(side, position, wins, simulations, children) ==
    [side_that_moved |-> side, position |-> position, wins |-> wins,
     simulations |-> simulations, children |-> children]

NoNode == 0 - 1

\* impl Index<NodeId> for Tree
NodeAt(ns, id) == ns[id + 1]

NodeIds(ns) == 0 .. (Len(ns) - 1)

\* a push that writes over the last slot of the arena
push_nodeOverLast(ns, node) ==
    [nodes |-> [ns EXCEPT ![Len(ns)] = node], id |-> Len(ns) - 1]

\* Tree::push_node
push_node(ns, node) == [nodes |-> Append(ns, node), id |-> Len(ns)]

\* Outcome::Decisive { winner } and Outcome::Draw
Decisive(winner) == [kind |-> "Decisive", winner |-> winner]
Draw == [kind |-> "Draw", winner |-> "None"]
Outcomes == {Decisive(White), Decisive(Black), Draw}

\* None of Option<Outcome>
NoOutcome == [kind |-> "None", winner |-> "None"]

\* Position::outcome for Bughouse: variant_outcome is None and
\* has_insufficient_material false, which leaves checkmate and stalemate
PositionOutcome(p, moves) ==
    IF moves # <<>> THEN NoOutcome
    ELSE IF Checkers(p.chess) # {} THEN Decisive(Not(Turn(p)))
    ELSE Draw

\* f32 values of a UCT score: a number of thousandths, or NaN
Score(v) == [nan |-> FALSE, v |-> v]
NaN == [nan |-> TRUE, v |-> 0]
\* f32::MAX, above every score a visited child can have
F32Max == Score(2000000000)
\* -1f32
MinusOne == Score(0 - 1000)

\* 1000 * ln(n) for the simulation counts the model reaches
LnMilli(n) == <<0, 693, 1099, 1386, 1609, 1792, 1946, 2079, 2197, 2303>>[n]

RECURSIVE SqrtBetween(_, _, _)
SqrtBetween(x, lo, hi) ==
    IF lo >= hi THEN lo
    ELSE LET mid == (lo + hi + 1) \div 2
         IN IF mid * mid <= x THEN SqrtBetween(x, mid, hi)
            ELSE SqrtBetween(x, lo, mid - 1)

\* f32::sqrt on thousandths: the root of x / 1000000, in thousandths
ISqrt(x) == SqrtBetween(x, 0, 40000)

\* the UCT score of a visited child (select_next, else branch of uct):
\* ln(0) is -inf and its root NaN
UctVisited(wins, simulations, parent_simulations) ==
    IF parent_simulations <= 0 THEN NaN
    ELSE Score((wins * 500) \div simulations
               + (ExplorationMilli
                    * ISqrt((LnMilli(parent_simulations) * 1000) \div simulations))
                 \div 1000)

\* the closure uct of select_next
uct(ns, node_id, child_id) ==
    LET node == NodeAt(ns, node_id)
        child == NodeAt(ns, child_id)
    IN IF child.simulations = 0 THEN F32Max
       ELSE UctVisited(child.wins, child.simulations, node.simulations)

\* a comparison that also takes a score equal to the highest so far
HigherOrEqual(uct_score, highest_uct) ==
    ~uct_score.nan /\ ~highest_uct.nan /\ uct_score.v >= highest_uct.v

\* uct_score > highest_uct on f32: false when either is NaN
Higher(uct_score, highest_uct) ==
    ~uct_score.nan /\ ~highest_uct.nan /\ uct_score.v > highest_uct.v

\* the fold of select_next over the children, from (None, -1f32).  A child
\* is taken when its score is higher than the highest so far, that is,
\* higher than -1 and than every earlier score that was itself higher than
\* -1; the fold ends on the last child taken.
FoldHighest(ns, node_id) ==
    LET children == NodeAt(ns, node_id).children
        scores == [i \in 1 .. Len(children) |-> uct(ns, node_id, children[i])]
        taken == {i \in 1 .. Len(children) :
                     /\ Higher(scores[i], MinusOne)
                     /\ \A k \in 1 .. (i - 1) :
                           Higher(scores[k], MinusOne) => Higher(scores[i], scores[k])}
    IN IF taken = {}
       THEN [highest_uct_child |-> NoNode, highest_uct |-> MinusOne]
       ELSE LET i == CHOOSE x \in taken : \A y \in taken : y <= x
            IN [highest_uct_child |-> children[i], highest_uct |-> scores[i]]

\* Tree::select_next: NoNode stands for None
select_next(ns, node_id) == FoldHighest(ns, node_id).highest_uct_child

\* a descent that stops below the first node it is given
GrowBranchOneStep(ns, branch) ==
    LET next == select_next(ns, branch[Len(branch)])
    IN IF next = NoNode \/ Len(branch) > 1 THEN branch ELSE Append(branch, next)

\* the loop of select_branch: push select_next of the last node until None
RECURSIVE GrowBranch(_, _)
GrowBranch(ns, branch) ==
    LET next == select_next(ns, branch[Len(branch)])
    IN IF next = NoNode THEN branch ELSE GrowBranch(ns, Append(branch, next))

\* Tree::select_branch
select_branch(ns, root) == GrowBranch(ns, <<root>>)

\* a child that keeps the side of its parent
NewChildSameSide(node, m) ==
    Node(node.side_that_moved, play(node.position, m), 0, 0, <<>>)

\* the Node built for one legal move (expand_tree, the closure of map)
NewChild(node, m) ==
    Node(Not(node.side_that_moved), play(node.position, m), 0, 0, <<>>)

\* children.into_iter().map(|node| self.push_node(node)).collect(): the
\* arena after the pushes and the ids they returned
PushAll(ns, children) ==
    [nodes |-> IF children = <<>> THEN ns
               ELSE push_node(ns \o SubSeq(children, 1, Len(children) - 1),
                              children[Len(children)]).nodes,
     ids |-> [i \in 1 .. Len(children) |->
                 push_node(ns \o SubSeq(children, 1, i - 1), children[i]).id]]

\* an expansion that stores every new id twice
ExpandWithTwice(ns, node_id, moves) ==
    LET node == NodeAt(ns, node_id)
        children == [i \in 1 .. Len(moves) |-> NewChild(node, moves[i])]
        pushed == PushAll(ns, children)
    IN [pushed.nodes EXCEPT ![node_id + 1].children = @ \o pushed.ids \o pushed.ids]

\* an expansion that also clears the statistics of the expanded node
ExpandWithClearsLeaf(ns, node_id, moves) ==
    LET node == NodeAt(ns, node_id)
        children == [i \in 1 .. Len(moves) |-> NewChild(node, moves[i])]
        pushed == PushAll(ns, children)
    IN [pushed.nodes EXCEPT ![node_id + 1].children = @ \o pushed.ids,
                            ![node_id + 1].wins = 0]

\* the arena after the children of node_id for the moves have been pushed
\* and their ids stored
ExpandWith(ns, node_id, moves) ==
    LET node == NodeAt(ns, node_id)
        children == [i \in 1 .. Len(moves) |-> NewChild(node, moves[i])]
        pushed == PushAll(ns, children)
    IN [pushed.nodes EXCEPT ![node_id + 1].children = @ \o pushed.ids]

\* Tree::expand_tree
expand_tree(ns, node_id) ==
    ExpandWith(ns, node_id, legal_moves(NodeAt(ns, node_id).position))

\* a loop body that names the checkmated side the winner
LoopBodyCreditsLoser(simulation_board, moves, random) ==
    IF moves # <<>>
    THEN [board |-> play(simulation_board, moves[random]),
          status |-> "running", outcome |-> NoOutcome]
    ELSE IF Checkers(simulation_board.chess) # {}
    THEN [board |-> simulation_board, status |-> "returned",
          outcome |-> Decisive(simulation_board.chess.turn)]
    ELSE [board |-> simulation_board, status |-> "returned", outcome |-> Draw]

\* one turn of the loop of simulate: moves is simulation_board.legal_moves()
\* and random the index choose() draws; the loop goes on, breaks with the
\* outcome, or panics
LoopBody(simulation_board, moves, random) ==
    IF moves # <<>>
    THEN [board |-> play(simulation_board, moves[random]),
          status |-> "running", outcome |-> NoOutcome]
    ELSE IF PositionOutcome(simulation_board, moves) # NoOutcome
    THEN [board |-> simulation_board, status |-> "returned",
          outcome |-> PositionOutcome(simulation_board, moves)]
    ELSE [board |-> simulation_board, status |-> "panicked", outcome |-> NoOutcome]

\* a win score that pays a draw like a win
WinScoreDrawAsWin(result, side) ==
    IF result.kind = "Decisive"
    THEN (IF result.winner = side THEN 2 ELSE 0)
    ELSE 2

\* what backpropagate adds to wins, in halves (the match on result)
WinScore(result, side) ==
    IF result.kind = "Decisive"
    THEN (IF result.winner = side THEN 2 ELSE 0)
    ELSE 1

\* Tree::backpropagate: the branch is given by the ids of its nodes
backpropagate(ns, branch, result) ==
    [i \in 1 .. Len(ns) |->
        IF (i - 1) \in SeqToSet(branch)
        THEN [ns[i] EXCEPT !.wins = @ + WinScore(result, ns[i].side_that_moved)]
        ELSE ns[i]]

\* Tree::execute_mcts: the arena it leaves
execute_mcts(ns, root) ==
    LET branch == select_branch(ns, root)
        leaf == branch[Len(branch)]
    IN expand_tree(ns, leaf)

----------------------------------------------------------------------------
(* Positions the model starts from.  Squares are given by file and rank;   *)
(* T is the last rank.                                                     *)

T == NumRanks - 1

MkBoard(placed) ==
    [s \in Squares |->
        IF \E x \in placed : x[1] = s
        THEN (CHOOSE x \in placed : x[1] = s)[2]
        ELSE Empty]

MkChess(placed, turn, castling, ep) ==
    [board |-> MkBoard(placed), turn |-> turn, castling |-> castling, ep |-> ep]

MkPockets(white, black) ==
    [c \in Colors |->
        [r \in Roles |->
            LET held == IF c = White THEN white ELSE black
            IN IF \E x \in held : x[1] = r
               THEN (CHOOSE x \in held : x[1] = r)[2]
               ELSE 0]]

\* castle, double pawn push and en passant; 64 pieces and 32 pawns in all
StartCastle ==
    Bughouse(
        MkChess({<<Sq(KingHomeFile, 0), Piece(White, "King", FALSE)>>,
                 <<Sq(RookHomeFile, 0), Piece(White, "Rook", FALSE)>>,
                 <<Sq(1, 1), Piece(White, "Pawn", FALSE)>>,
                 <<Sq(RookHomeFile - 1, T), Piece(Black, "King", FALSE)>>,
                 <<Sq(2, 3), Piece(Black, "Pawn", FALSE)>>},
                White, {Sq(RookHomeFile, 0)}, NoSquare),
        MkPockets({<<"Knight", 29>>}, {<<"Pawn", 30>>}))

\* a pawn about to promote on a square a rook attacks; 64 pieces, 32 pawns
StartPromote ==
    Bughouse(
        MkChess({<<Sq(1, 0), Piece(White, "King", FALSE)>>,
                 <<Sq(0, T - 1), Piece(White, "Pawn", FALSE)>>,
                 <<Sq(3, T - 1), Piece(Black, "King", FALSE)>>,
                 <<Sq(2, T), Piece(Black, "Rook", FALSE)>>},
                White, {}, NoSquare),
        MkPockets({<<"Bishop", 29>>}, {<<"Pawn", 31>>}))

\* a pawn that can capture a rook or a promoted knight; 64 pieces, 32 pawns
StartCapture ==
    Bughouse(
        MkChess({<<Sq(0, 0), Piece(White, "King", FALSE)>>,
                 <<Sq(0, 1), Piece(White, "Rook", FALSE)>>,
                 <<Sq(2, 1), Piece(White, "Knight", TRUE)>>,
                 <<Sq(3, T), Piece(Black, "King", FALSE)>>,
                 <<Sq(1, 2), Piece(Black, "Pawn", FALSE)>>},
                Black, {}, NoSquare),
        MkPockets({<<"Pawn", 30>>}, {<<"Rook", 29>>}))

\* the king in check from a rook along a file, a knight in the pocket
StartCheck ==
    Bughouse(
        MkChess({<<Sq(0, 0), Piece(White, "King", FALSE)>>,
                 <<Sq(0, T), Piece(Black, "Rook", FALSE)>>,
                 <<Sq(3, T), Piece(Black, "King", FALSE)>>},
                White, {}, NoSquare),
        MkPockets({<<"Knight", 1>>}, {<<"Queen", 1>>}))

\* the king in check from a rook and a bishop at once
StartDoubleCheck ==
    Bughouse(
        MkChess({<<Sq(0, 0), Piece(White, "King", FALSE)>>,
                 <<Sq(0, 3), Piece(Black, "Rook", FALSE)>>,
                 <<Sq(2, 2), Piece(Black, "Bishop", FALSE)>>,
                 <<Sq(3, T), Piece(Black, "King", FALSE)>>},
                White, {}, NoSquare),
        MkPockets({<<"Queen", 1>>, <<"Pawn", 1>>}, {}))

\* checkmate: no legal move
StartMate ==
    Bughouse(
        MkChess({<<Sq(0, 0), Piece(White, "King", FALSE)>>,
                 <<Sq(1, 1), Piece(Black, "Queen", FALSE)>>,
                 <<Sq(2, 2), Piece(Black, "King", FALSE)>>},
                White, {}, NoSquare),
        MkPockets({}, {<<"Pawn", 1>>}))

\* a quiet position whose side to move holds a pawn, a knight and a queen
StartDrops ==
    Bughouse(
        MkChess({<<Sq(0, 0), Piece(White, "King", FALSE)>>,
                 <<Sq(3, T), Piece(Black, "King", FALSE)>>},
                White, {}, NoSquare),
        MkPockets({<<"Pawn", 1>>, <<"Knight", 1>>, <<"Queen", 1>>},
                  {<<"Pawn", 1>>, <<"Knight", 1>>}))

\* a queen that can stalemate or checkmate in one move; empty pockets
StartEndgame ==
    Bughouse(
        MkChess({<<Sq(0, 0), Piece(White, "King", FALSE)>>,
                 <<Sq(1, 3), Piece(Black, "Queen", FALSE)>>,
                 <<Sq(2, 2), Piece(Black, "King", FALSE)>>},
                Black, {}, NoSquare),
        NoMaterial)

\* two kings and empty pockets
StartBareKings ==
    Bughouse(
        MkChess({<<Sq(0, 0), Piece(White, "King", FALSE)>>,
                 <<Sq(3, T), Piece(Black, "King", FALSE)>>},
                White, {}, NoSquare),
        NoMaterial)

StartPositions ==
    {StartCastle, StartPromote, StartCapture, StartCheck, StartDoubleCheck,
     StartMate}

\* Bughouse::default: the pockets of a fresh game are empty
DefaultPosition == Bughouse(StartCastle.chess, NoMaterial)

----------------------------------------------------------------------------
(* SpecPlay: moves from legal_moves() applied with play to one position.   *)

NoMove == Move("None", NoRole, NoSquare, NoSquare, NoRole, NoRole)
Idle == [op |-> "init", move |-> NoMove, before |-> DefaultPosition]

InitPlay ==
    /\ pos \in StartPositions
    /\ plies = 0
    /\ nodes = <<>>
    /\ setup = 0
    /\ made = 0
    /\ calls = 0
    /\ last = Idle

\* x.play(&m) for a move m of x.legal_moves()
PlayMove ==
    /\ plies < MaxPlies
    /\ \E moves \in {legal_moves(pos)} :
          \E i \in 1 .. Len(moves) :
             /\ pos' = play(pos, moves[i])
             /\ last' = [op |-> "play", move |-> moves[i], before |-> pos]
    /\ plies' = plies + 1
    /\ UNCHANGED <<nodes, setup, made, calls>>

NextPlay == PlayMove

SpecPlay == InitPlay /\ [][NextPlay]_vars

----------------------------------------------------------------------------
(* Claims about the position under play (SpecPlay).                        *)

OtherCountsKept(before, after, c, r) ==
    \A c2 \in Colors : \A r2 \in Roles :
        <<c2, r2>> # <<c, r>> => after[c2][r2] = before[c2][r2]

\* occupied squares plus the pieces of both pockets
TotalPieces(p) ==
    Cardinality(Occupied(p.chess.board)) + MaterialCount(p.pockets)

\* pawns on the board, promoted pieces counted as pawns, plus pocket pawns
TotalPawns(p) ==
    Cardinality(Pawns(p.chess.board) \cup Promoted(p.chess.board))
    + p.pockets[White]["Pawn"] + p.pockets[Black]["Pawn"]

PositionInvariants(p) ==
    /\ TotalPieces(p) <= BoardCapacity
    /\ TotalPawns(p) <= MaxPawns
    /\ p.pockets[White]["King"] = 0
    /\ p.pockets[Black]["King"] = 0

\* C6: from a position that satisfies the position invariants, every
\* sequence of moves taken from legal_moves() and applied with play leaves
\* occupied squares plus pocket pieces at most 64, pawns (promoted pieces
\* counted as pawns) at most 32, and no king in a pocket.
C6_PlayPreservesInvariants == PositionInvariants(pos)

\* C6 witness: two moves played from a position with 64 pieces and 32 pawns,
\* the last one the capture of a promoted piece, and both totals still full.
C6_Witness ==
    /\ plies = 2
    /\ last.op = "play"
    /\ last.move.kind = "Normal"
    /\ last.move.capture # NoRole
    /\ last.before.chess.board[last.move.to].promoted
    /\ TotalPieces(pos) = BoardCapacity
    /\ TotalPawns(pos) = MaxPawns

\* C9: a legal Put(R, s) takes exactly one R out of the mover's pocket,
\* leaves every other pocket count of both sides as it was, and puts a piece
\* of role R and the mover's colour on s, which was empty before.
C9_PutDebitsPocketAndPlaces ==
    (last.op = "play" /\ last.move.kind = "Put") =>
        LET m == last.move
            mover == last.before.chess.turn
        IN /\ last.before.pockets[mover][m.role] > 0
           /\ pos.pockets[mover][m.role] = last.before.pockets[mover][m.role] - 1
           /\ OtherCountsKept(last.before.pockets, pos.pockets, mover, m.role)
           /\ last.before.chess.board[m.to] = Empty
           /\ pos.chess.board[m.to].role = m.role
           /\ pos.chess.board[m.to].color = mover

\* C9 witness: a Put has been played while the mover was in check.
C9_Witness ==
    /\ last.op = "play"
    /\ last.move.kind = "Put"
    /\ Checkers(last.before.chess) # {}

\* C10: a capturing Normal move adds exactly one to the mover's pocket count
\* of the captured role, or of Pawn when the captured piece is a promoted
\* pawn; an en-passant capture adds exactly one to the mover's pawn count;
\* no other pocket count of either side changes.
C10_CaptureCreditsMover ==
    LET m == last.move
        mover == last.before.chess.turn
        victim == last.before.chess.board[m.to]
        credited == IF victim.promoted THEN "Pawn" ELSE victim.role
    IN /\ (last.op = "play" /\ m.kind = "Normal" /\ m.capture # NoRole) =>
            /\ victim.color = Not(mover)
            /\ pos.pockets[mover][credited]
                  = last.before.pockets[mover][credited] + 1
            /\ OtherCountsKept(last.before.pockets, pos.pockets, mover, credited)
       /\ (last.op = "play" /\ m.kind = "EnPassant") =>
            /\ pos.pockets[mover]["Pawn"] = last.before.pockets[mover]["Pawn"] + 1
            /\ OtherCountsKept(last.before.pockets, pos.pockets, mover, "Pawn")

\* C10 witness: a promoted piece showing another role than Pawn was captured.
C10_Witness ==
    /\ last.op = "play"
    /\ last.move.kind = "Normal"
    /\ last.move.capture \notin {NoRole, "Pawn"}
    /\ last.before.chess.board[last.move.to].promoted

\* an en-passant capture has been played
EnPassantPlayed == last.op = "play" /\ last.move.kind = "EnPassant"

\* a castle has been played
CastlePlayed == last.op = "play" /\ last.move.kind = "Castle"

\* s lies strictly between a and b on a rank, a file or a diagonal
StrictlyBetween(a, b, s) ==
    LET dfa == File(s) - File(a)
        dra == Rank(s) - Rank(a)
        dfb == File(b) - File(s)
        drb == Rank(b) - Rank(s)
    IN /\ s # a
       /\ s # b
       /\ \/ dfa = 0 /\ dfb = 0
          \/ dra = 0 /\ drb = 0
          \/ Abs(dfa) = Abs(dra) /\ Abs(dfb) = Abs(drb)
       /\ Sgn(dfa) = Sgn(dfb)
       /\ Sgn(dra) = Sgn(drb)

\* the pieces of the other side that attack the king of the side to move
CheckingPieces(p) ==
    {s \in Squares :
        /\ p.chess.board[s].color = Not(Turn(p))
        /\ PieceAttacks(p.chess.board, s, KingOf(p.chess.board, Turn(p)))}

\* the squares strictly between one of the pieces of the set and the king
Interposing(p, checking) ==
    UNION {{s \in Squares : StrictlyBetween(c, KingOf(p.chess.board, Turn(p)), s)} :
              c \in checking}

\* the squares a drop may target, as the claim words them
InterposingOrFree(p) ==
    CHOOSE targets \in
        {IF checking = {} THEN {s \in Squares : p.chess.board[s] = Empty}
         ELSE IF Cardinality(checking) = 1 THEN Interposing(p, checking)
         ELSE {} : checking \in {CheckingPieces(p)}} : TRUE

\* C18: a castle, or a Normal move without capture (a promotion included),
\* leaves the pockets of both sides as they were, and a move of any kind
\* leaves the pocket of the side that did not move as it was.
C18_QuietMovesKeepPockets ==
    last.op = "play" =>
        /\ ( \/ last.move.kind = "Castle"
             \/ last.move.kind = "Normal" /\ last.move.capture = NoRole ) =>
               pos.pockets = last.before.pockets
        /\ pos.pockets[Turn(pos)] = last.before.pockets[Turn(pos)]
        /\ Turn(pos) = Not(Turn(last.before))

\* C18 witness: a pawn has promoted without capturing while both sides held
\* pieces in their pockets.
C18_Witness ==
    /\ last.op = "play"
    /\ last.move.kind = "Normal"
    /\ last.move.capture = NoRole
    /\ last.move.promotion # NoRole
    /\ SideCount(pos.pockets[White]) > 0
    /\ SideCount(pos.pockets[Black]) > 0

\* the places of the list moves that hold a Put
PutPlaces(moves) == {i \in 1 .. Len(moves) : moves[i].kind = "Put"}

\* the Puts the claim words: one for every role but King that the pocket
\* holds and every target square, pawns not on the first and last rank
HeldPuts(pocket, targets) ==
    {Move("Put", role, NoSquare, to, NoRole, NoRole) :
        role \in {r \in Roles \ {"King"} : pocket[r] > 0}, to \in targets}
    \ {Move("Put", "Pawn", NoSquare, to, NoRole, NoRole) :
          to \in {s \in Squares : Rank(s) \in {0, NumRanks - 1}}}

\* C20: legal_moves() holds Put(role, to) exactly once for every role but
\* King that the side to move holds and every drop target square (pawns not
\* on the back ranks) and for nothing else, so the debit of a Put that was
\* taken from legal_moves() never runs on a count of zero and no pocket
\* count wraps around.  The list is looked at in every position the moves
\* of the model are taken from, the debit after every Put played.
C20_PutsOnlyOfHeldRoles ==
    /\ plies < MaxPlies =>
          \E moves \in {legal_moves(pos)} :
              /\ {moves[i] : i \in PutPlaces(moves)}
                    = HeldPuts(our_pocket(pos), InterposingOrFree(pos))
              /\ Cardinality(PutPlaces(moves))
                    = Cardinality({moves[i] : i \in PutPlaces(moves)})
    /\ (last.op = "play" /\ last.move.kind = "Put") =>
          /\ last.before.pockets[Turn(last.before)][last.move.role] > 0
          /\ pos.pockets[Turn(last.before)][last.move.role]
                = last.before.pockets[Turn(last.before)][last.move.role] - 1
    /\ \A c \in Colors : \A r \in Roles : pos.pockets[c][r] <= BoardCapacity

\* C20 witness: the last piece of a role has been dropped, and the side now
\* to move, whose moves are taken next, holds some roles and lacks others.
C20_Witness ==
    /\ last.op = "play"
    /\ last.move.kind = "Put"
    /\ last.before.pockets[Turn(last.before)][last.move.role] = 1
    /\ pos.pockets[Turn(last.before)][last.move.role] = 0
    /\ plies < MaxPlies
    /\ \E r \in Roles : our_pocket(pos)[r] > 0
    /\ legal_put_squares(pos) # {}

----------------------------------------------------------------------------
(* SpecSan: legal_moves() and san_candidates(role, to) asked of a position *)
(* reached by at most one move.                                            *)

SanPositions ==
    LET starts == StartPositions \cup {StartDrops}
    IN starts \cup UNION {{play(p, m) : m \in SeqToSet(legal_moves(p))} : p \in starts}

Query(op, role, to, result) ==
    [op |-> op, role |-> role, to |-> to, result |-> result]

InitSan ==
    /\ pos \in SanPositions
    /\ last = Query("init", NoRole, NoSquare, <<>>)
    /\ plies = 0
    /\ nodes = <<>>
    /\ setup = 0
    /\ made = 0
    /\ calls = 0

\* x.legal_moves()
LegalMoves ==
    /\ last.op = "init"
    /\ last' = Query("legal_moves", NoRole, NoSquare, legal_moves(pos))
    /\ UNCHANGED <<pos, plies, nodes, setup, made, calls>>

\* x.san_candidates(role, to)
SanCandidates ==
    /\ last.op = "init"
    /\ \E role \in Roles : \E to \in Squares :
          last' = Query("san_candidates", role, to, san_candidates(pos, role, to))
    /\ UNCHANGED <<pos, plies, nodes, setup, made, calls>>

NextSan == LegalMoves \/ SanCandidates

SpecSan == InitSan /\ [][NextSan]_vars

(* Claims about the candidates (SpecSan).                                  *)

PutOf(role, to) == Move("Put", role, NoSquare, to, NoRole, NoRole)

FirstOrLastRank(s) == Rank(s) = 0 \/ Rank(s) = NumRanks - 1

\* C11: the drop target squares are every unoccupied square when the side to
\* move is not in check, the squares strictly between the checker and the
\* mover's king when there is exactly one checker (none for a knight, a pawn
\* or an adjacent checker, and never the checker's own square), and none
\* when there are two or more checkers; every Put of legal_moves() targets
\* an empty square and, in check, an interposing one.
C11_PutTargets ==
    last.op = "legal_moves" =>
        \E targets \in {InterposingOrFree(pos)} :
            /\ legal_put_squares(pos) = targets
            /\ CheckingPieces(pos) \cap legal_put_squares(pos) = {}
            /\ \A i \in 1 .. Len(last.result) :
                  last.result[i].kind = "Put" =>
                      /\ pos.chess.board[last.result[i].to] = Empty
                      /\ last.result[i].to \in targets

\* C11 witness: legal_moves() was asked of a side that holds pieces and is
\* in check from a knight alone, and answered without a Put.
C11_Witness ==
    /\ last.op = "legal_moves"
    /\ SideCount(our_pocket(pos)) > 0
    /\ Cardinality(CheckingPieces(pos)) = 1
    /\ \A c \in CheckingPieces(pos) : pos.chess.board[c].role = "Knight"
    /\ legal_put_squares(pos) = {}
    /\ last.result # <<>>
    /\ \A i \in 1 .. Len(last.result) : last.result[i].kind # "Put"

\* legal_moves() was asked of a side in check from a pawn alone
PawnCheckAsked ==
    /\ last.op = "legal_moves"
    /\ \E c \in CheckingPieces(pos) : pos.chess.board[c].role = "Pawn"

\* legal_moves() was asked of a side in check from a queen next to its king
AdjacentCheckAsked ==
    /\ last.op = "legal_moves"
    /\ \E c \in CheckingPieces(pos) :
          /\ pos.chess.board[c].role = "Queen"
          /\ Abs(File(c) - File(KingOf(pos.chess.board, Turn(pos)))) <= 1
          /\ Abs(Rank(c) - Rank(KingOf(pos.chess.board, Turn(pos)))) <= 1

\* legal_moves() answered an interposing Put to a side in check
InterposingPutAnswered ==
    /\ last.op = "legal_moves"
    /\ CheckingPieces(pos) # {}
    /\ \E i \in 1 .. Len(last.result) : last.result[i].kind = "Put"

\* C12: for either side to move, neither legal_moves() nor
\* san_candidates(Pawn, to) holds a Put of a pawn on a square of the first or
\* of the last rank, while the drops of the other roles the mover holds are
\* still produced on the drop target squares of those ranks.
C12_NoPawnPutOnBackRanks ==
    /\ \A i \in 1 .. Len(last.result) :
          (last.result[i].kind = "Put" /\ last.result[i].role = "Pawn") =>
              ~FirstOrLastRank(last.result[i].to)
    /\ last.op = "legal_moves" =>
          \E targets \in {InterposingOrFree(pos)} :
              \A role \in Roles \ {"Pawn", "King"} : \A to \in targets :
                  (our_pocket(pos)[role] > 0 /\ FirstOrLastRank(to)) =>
                      PutOf(role, to) \in SeqToSet(last.result)
    /\ ( /\ last.op = "san_candidates"
         /\ last.role \notin {"Pawn", "King"}
         /\ our_pocket(pos)[last.role] > 0
         /\ FirstOrLastRank(last.to)
         /\ last.to \in InterposingOrFree(pos) ) =>
           PutOf(last.role, last.to) \in SeqToSet(last.result)

\* C12 witness: san_candidates was asked for a pawn on an empty square of a
\* back rank by a side that holds a pawn and a queen and is not in check,
\* and answered without a Put.
C12_Witness ==
    /\ last.op = "san_candidates"
    /\ last.role = "Pawn"
    /\ FirstOrLastRank(last.to)
    /\ our_pocket(pos)["Pawn"] > 0
    /\ our_pocket(pos)["Queen"] > 0
    /\ last.to \in legal_put_squares(pos)
    /\ Checkers(pos.chess) = {}
    /\ \A i \in 1 .. Len(last.result) : last.result[i].kind # "Put"

----------------------------------------------------------------------------
(* SpecSetup: from_setup applied to one Setup.                             *)

\* the pocket of one side in a setup: pawns, queens and kings
SetupSides ==
    {[r \in Roles |-> CASE r = "Pawn" -> np [] r = "Queen" -> nq
                        [] r = "King" -> nk [] OTHER -> 0] :
        np \in {0, 15, 16, 17}, nq \in {0, 14, 15}, nk \in {0, 1}}

SetupPockets == {[c \in Colors |-> IF c = White THEN w ELSE b] :
                    w \in SetupSides, b \in SetupSides}

\* what the rules engine may answer
BaseVerdicts == {{}, {"IMPOSSIBLE_MATERIAL"}, {"MISSING_KING"}}

Setups ==
    {[chess |-> p.chess, pockets |-> k, base |-> e] :
        p \in StartPositions, k \in SetupPockets, e \in BaseVerdicts}

InitSetup ==
    /\ setup \in Setups
    /\ made = Err({})
    /\ pos = DefaultPosition
    /\ plies = 0
    /\ nodes = <<>>
    /\ calls = 0
    /\ last = Idle

\* Bughouse::from_setup(&setup, mode)
FromSetup ==
    /\ last.op = "init"
    /\ made' = from_setup(setup)
    /\ last' = [last EXCEPT !.op = "from_setup"]
    /\ UNCHANGED <<setup, pos, plies, nodes, calls>>

NextSetup == FromSetup

SpecSetup == InitSetup /\ [][NextSetup]_vars

(* Claims about construction (SpecSetup).                                  *)

\* pawns on the board plus the pawns of both pockets
BoardAndPocketPawns(chess, pockets) ==
    Cardinality(Pawns(chess.board)) + pockets[White]["Pawn"] + pockets[Black]["Pawn"]

ConstructionInvariants(chess, pockets) ==
    /\ Cardinality(Occupied(chess.board)) + MaterialCount(pockets) <= BoardCapacity
    /\ pockets[White]["King"] = 0
    /\ pockets[Black]["King"] = 0
    /\ BoardAndPocketPawns(chess, pockets) <= MaxPawns

\* C7: every position from_setup returns satisfies the three construction
\* invariants (at most 64 pieces on board and in pockets, no king in a
\* pocket, at most 32 pawns on board and in pockets), and every setup that
\* violates one of them is rejected.
C7_FromSetupEnforcesInvariants ==
    last.op = "from_setup" =>
        /\ made.ok =>
              ConstructionInvariants(made.position.chess, made.position.pockets)
        /\ ~ConstructionInvariants(setup.chess, setup.pockets) => ~made.ok

\* C8: a setup whose only violation is the rules engine's IMPOSSIBLE_MATERIAL
\* is accepted when pieces are at most 64 and pawns at most 32: a position
\* holding the setup's board and pockets is returned.
C8_ImpossibleMaterialCleared ==
    ( /\ last.op = "from_setup"
      /\ setup.base = {"IMPOSSIBLE_MATERIAL"}
      /\ ConstructionInvariants(setup.chess, setup.pockets) ) =>
        /\ made.ok
        /\ made.position = Bughouse(setup.chess, setup.pockets)

----------------------------------------------------------------------------
(* Spec: the search tree under execute_mcts and backpropagate.             *)

TreeRoots == {StartCheck, StartDoubleCheck, StartMate}

RECURSIVE PathTo(_, _)
PathTo(ns, id) ==
    IF \E q \in NodeIds(ns) : id \in SeqToSet(NodeAt(ns, q).children)
    THEN Append(PathTo(ns, CHOOSE q \in NodeIds(ns) :
                               id \in SeqToSet(NodeAt(ns, q).children)), id)
    ELSE <<id>>

\* the branches of the tree: the paths from the root to a node
Branches(ns) == {PathTo(ns, id) : id \in NodeIds(ns)}

TreeOp(op, branch, leaf, outcome, result) ==
    [op |-> op, branch |-> branch, leaf |-> leaf, outcome |-> outcome,
     result |-> result]

Init ==
    /\ \E p \in TreeRoots : nodes = <<Node(Not(Turn(p)), p, 0, 0, <<>>)>>
    /\ calls = 0
    /\ last = TreeOp("init", <<>>, NoNode, Draw, NoNode)
    /\ pos = DefaultPosition
    /\ plies = 0
    /\ setup = 0
    /\ made = 0

\* tree.execute_mcts(root), root the first node of the arena
ExecuteMcts ==
    /\ calls < MaxCalls
    /\ \E branch \in {select_branch(nodes, 0)} :
          /\ nodes' = execute_mcts(nodes, 0)
          /\ last' = TreeOp("execute_mcts", branch, branch[Len(branch)], Draw, NoNode)
    /\ calls' = calls + 1
    /\ UNCHANGED <<pos, plies, setup, made>>

\* Tree::backpropagate(branch, result) for a branch of the tree
Backpropagate ==
    /\ calls < MaxCalls
    /\ \E branch \in Branches(nodes) : \E result \in Outcomes :
          /\ nodes' = backpropagate(nodes, branch, result)
          /\ last' = TreeOp("backpropagate", branch, branch[Len(branch)], result, NoNode)
    /\ calls' = calls + 1
    /\ UNCHANGED <<pos, plies, setup, made>>

Next == ExecuteMcts \/ Backpropagate

Spec == Init /\ [][Next]_vars

----------------------------------------------------------------------------
(* SpecArena: the arena under push_node, expand_tree and execute_mcts.     *)

\* the nodes handed to push_node: fresh nodes of two positions
PushedNodes ==
    {Node(Not(Turn(p)), p, 0, 0, <<>>) : p \in {StartMate, StartDoubleCheck}}

\* tree.push_node(node)
PushNode ==
    /\ calls < MaxCalls
    /\ \E node \in PushedNodes :
          /\ nodes' = push_node(nodes, node).nodes
          /\ last' = TreeOp("push_node", <<>>, NoNode, Draw, push_node(nodes, node).id)
    /\ calls' = calls + 1
    /\ UNCHANGED <<pos, plies, setup, made>>

\* tree.expand_tree(node_id) for a node of the arena
ExpandTree ==
    /\ calls < MaxCalls
    /\ \E node_id \in NodeIds(nodes) :
          /\ nodes' = expand_tree(nodes, node_id)
          /\ last' = TreeOp("expand_tree", <<>>, node_id, Draw, NoNode)
    /\ calls' = calls + 1
    /\ UNCHANGED <<pos, plies, setup, made>>

NextArena == PushNode \/ ExpandTree \/ ExecuteMcts

SpecArena == Init /\ [][NextArena]_vars

(* Claims about the arena (SpecArena).                                     *)

\* the ids held by the children lists of the arena
ChildIds(ns) == UNION {SeqToSet(NodeAt(ns, q).children) : q \in NodeIds(ns)}

\* C13: the arena is append-only with stable ids.  Over every push_node,
\* expand_tree and execute_mcts the number of nodes does not decrease, every
\* id issued before keeps naming a node of the same position and the same
\* side_that_moved, push_node returns an id that was not issued before, the
\* ids an expansion stores are new ones, and every id in a children list
\* names a node of the arena.
C13_ArenaAppendOnly ==
    [][ /\ Len(nodes') >= Len(nodes)
        /\ \A id \in NodeIds(nodes) :
              /\ NodeAt(nodes', id).position = NodeAt(nodes, id).position
              /\ NodeAt(nodes', id).side_that_moved = NodeAt(nodes, id).side_that_moved
        /\ last'.op = "push_node" =>
              /\ last'.result \notin NodeIds(nodes)
              /\ NodeIds(nodes') = NodeIds(nodes) \cup {last'.result}
              /\ NodeAt(nodes', last'.result) \in PushedNodes
        /\ (ChildIds(nodes') \ ChildIds(nodes)) \cap NodeIds(nodes) = {}
        /\ ChildIds(nodes') \subseteq NodeIds(nodes') ]_vars

\* C13 witness: a node of a position with legal moves was pushed after the
\* root had been expanded, and was then expanded itself.
C13_Witness ==
    /\ last.op = "expand_tree"
    /\ last.leaf > Len(NodeAt(nodes, 0).children)
    /\ NodeAt(nodes, 0).children # <<>>
    /\ last.leaf \notin ChildIds(nodes)
    /\ NodeAt(nodes, last.leaf).children # <<>>

----------------------------------------------------------------------------
(* SpecSimulate: simulate(position), one turn of its loop per step, cut    *)
(* off after MaxPlies moves.  SpecRollout: the same loop, not cut off, on   *)
(* positions whose rollouts stay within finitely many positions.           *)

Rollout(position, status, outcome) ==
    [op |-> "simulate", position |-> position, status |-> status,
     outcome |-> outcome]

SimulateStarts == {StartCheck, StartDoubleCheck, StartMate, StartEndgame}

RolloutStarts == {StartBareKings, StartMate}

\* let mut simulation_board = position.clone()
InitSimulate ==
    /\ \E position \in SimulateStarts :
          /\ pos = position
          /\ last = Rollout(position, "running", NoOutcome)
    /\ plies = 0
    /\ nodes = <<>>
    /\ setup = 0
    /\ made = 0
    /\ calls = 0

InitRollout ==
    /\ \E position \in RolloutStarts :
          /\ pos = position
          /\ last = Rollout(position, "running", NoOutcome)
    /\ plies = 0
    /\ nodes = <<>>
    /\ setup = 0
    /\ made = 0
    /\ calls = 0

\* one turn of the loop on simulation_board
LoopTurn ==
    /\ last.status = "running"
    /\ \E moves \in {legal_moves(pos)} :
          \E random \in (IF moves = <<>> THEN {0} ELSE 1 .. Len(moves)) :
              \E turn \in {LoopBody(pos, moves, random)} :
                  /\ pos' = turn.board
                  /\ last' = Rollout(last.position, turn.status, turn.outcome)
    /\ UNCHANGED <<nodes, setup, made, calls>>

\* simulate, moves counted and cut off at MaxPlies
SimulateLoop ==
    /\ plies < MaxPlies \/ legal_moves(pos) = <<>>
    /\ LoopTurn
    /\ plies' = IF last'.status = "running" THEN plies + 1 ELSE plies

\* simulate, as long as it runs
RolloutLoop ==
    /\ LoopTurn
    /\ UNCHANGED plies

NextSimulate == SimulateLoop

NextRollout == RolloutLoop

SpecSimulate == InitSimulate /\ [][NextSimulate]_vars

\* the loop keeps running until it breaks or panics
SpecRollout == InitRollout /\ [][NextRollout]_vars /\ WF_vars(NextRollout)

(* Claims about simulate.                                                  *)

\* C16: simulate does not return from a position that still has a legal
\* move: when it returns, simulation_board has no legal move and the value
\* is its outcome, decisive for the side that gave checkmate and a draw for
\* stalemate; it plays on its own copy, the position it was given stays as
\* it was, and it panics only on a position with no legal move and no
\* outcome.
C16_SimulateReturnsTerminalOutcome ==
    [][ /\ last'.position = last.position
        /\ last'.status = "running" =>
              \E moves \in {legal_moves(pos)} :
                  \E i \in 1 .. Len(moves) : pos' = play_unchecked(pos, moves[i])
        /\ last'.status = "returned" =>
              /\ pos' = pos
              /\ legal_moves(pos) = <<>>
              /\ last'.outcome =
                    (IF CheckingPieces(pos) # {}
                     THEN [kind |-> "Decisive", winner |-> Not(Turn(pos))]
                     ELSE [kind |-> "Draw", winner |-> "None"])
        /\ last'.status = "panicked" =>
              /\ pos' = pos
              /\ legal_moves(pos) = <<>>
              /\ PositionOutcome(pos, legal_moves(pos)) = NoOutcome ]_vars

\* C16 witness: a rollout has played the move that checkmates White and has
\* returned the win of Black.
C16_Witness ==
    /\ last.status = "returned"
    /\ plies >= 1
    /\ last.position # pos
    /\ last.outcome = Decisive(Black)
    /\ Turn(pos) = White
    /\ Checkers(pos.chess) # {}

\* a rollout has returned a draw for a stalemate it played into
StalemateReturned ==
    /\ last.status = "returned"
    /\ plies >= 1
    /\ last.outcome = Draw

\* a rollout from two bare kings never stands on a position without a legal
\* move
BareKingsNeverTerminal ==
    last.position = StartBareKings => legal_moves(pos) # <<>>

\* C17: every rollout terminates: simulate reaches a position with no legal
\* move and returns an outcome.
C17_RolloutTerminates == <>(last.status = "returned")

----------------------------------------------------------------------------
(* SpecSelect: select_next on a node whose children carry any statistics.  *)

\* the (simulations, wins) a child may carry; wins in halves
ChildStats ==
    {<<0, w>> : w \in {0, 1}}
    \cup UNION {{<<n, 0>>, <<n, n>>, <<n, 2 * n>>} : n \in 1 .. MaxSims}

ChildStatLists == UNION {[1 .. k -> ChildStats] : k \in 0 .. MaxChildren}

\* a node with Len(stats) children, the children in insertion order
Family(parent_simulations, stats) ==
    <<Node(Black, StartMate, 0, parent_simulations,
           [i \in 1 .. Len(stats) |-> i])>>
    \o [i \in 1 .. Len(stats) |->
           Node(White, StartMate, stats[i][2], stats[i][1], <<>>)]

InitSelect ==
    /\ \E n \in 0 .. MaxSims : \E stats \in ChildStatLists :
          nodes = Family(n, stats)
    /\ calls = 0
    /\ last = TreeOp("init", <<>>, NoNode, Draw, NoNode)
    /\ pos = DefaultPosition
    /\ plies = 0
    /\ setup = 0
    /\ made = 0

\* tree.select_next(NodeId(0))
SelectNext ==
    /\ last.op = "init"
    /\ last' = TreeOp("select_next", <<>>, 0, Draw, select_next(nodes, 0))
    /\ UNCHANGED <<nodes, calls, pos, plies, setup, made>>

NextSelect == SelectNext

SpecSelect == InitSelect /\ [][NextSelect]_vars

----------------------------------------------------------------------------
(* Claims about the search tree.                                           *)

Unvisited(ns, node_id) ==
    {i \in 1 .. Len(NodeAt(ns, node_id).children) :
        NodeAt(ns, NodeAt(ns, node_id).children[i]).simulations = 0}

Min(S) == CHOOSE x \in S : \A y \in S : x <= y

\* C1: every execute_mcts(root) is a full iteration, so the simulation count
\* of the root is one higher after the call than before it.
C1_ExecuteMctsCountsAtRoot ==
    [][last'.op = "execute_mcts" =>
          nodes'[1].simulations = nodes[1].simulations + 1]_vars

\* C2: backpropagate(branch, outcome) adds exactly one to the simulation
\* count of every node on the branch.
C2_BackpropagateCountsSimulations ==
    [][last'.op = "backpropagate" =>
          \A id \in SeqToSet(last'.branch) :
              NodeAt(nodes', id).simulations = NodeAt(nodes, id).simulations + 1]_vars

\* C3: backpropagate(branch, outcome) adds to the wins of every node on the
\* branch 1.0 when the outcome is decisive for the node's side_that_moved,
\* 0.5 when it is a draw and 0.0 when it is decisive for the other side;
\* the wins of the nodes off the branch stay.  (wins is in halves.)
C3_BackpropagateScoresWins ==
    [][last'.op = "backpropagate" =>
          /\ Len(nodes') = Len(nodes)
          /\ \A id \in NodeIds(nodes) :
                NodeAt(nodes', id).wins =
                    NodeAt(nodes, id).wins
                    + (IF id \notin SeqToSet(last'.branch) THEN 0
                       ELSE IF last'.outcome.kind = "Draw" THEN 1
                       ELSE IF last'.outcome.winner = NodeAt(nodes, id).side_that_moved
                       THEN 2
                       ELSE 0)]_vars

\* C3 witness: a decisive outcome has been backpropagated along a branch
\* holding a node of the winning side and a node of the losing side, in a
\* tree with nodes off the branch.
C3_Witness ==
    /\ last.op = "backpropagate"
    /\ last.outcome.kind = "Decisive"
    /\ \E a, b \in SeqToSet(last.branch) :
          /\ NodeAt(nodes, a).side_that_moved = last.outcome.winner
          /\ NodeAt(nodes, a).wins >= 2
          /\ NodeAt(nodes, b).side_that_moved # last.outcome.winner
    /\ Len(nodes) > Len(last.branch)

\* C4: on a node with at least one child of simulation count 0, select_next
\* returns the first such child in insertion order, whatever the statistics
\* of the node and of its visited children.
C4_SelectNextTakesFirstUnvisited ==
    (last.op = "select_next" /\ Unvisited(nodes, 0) # {}) =>
        last.result = NodeAt(nodes, 0).children[Min(Unvisited(nodes, 0))]

\* C4 witness: select_next has answered for a node that was simulated at
\* least twice, whose first child is visited and has won, and which has more
\* than one unvisited child.
C4_Witness ==
    /\ last.op = "select_next"
    /\ NodeAt(nodes, 0).simulations >= 2
    /\ Len(NodeAt(nodes, 0).children) >= 3
    /\ NodeAt(nodes, 1).simulations > 0
    /\ NodeAt(nodes, 1).wins > 0
    /\ Cardinality(Unvisited(nodes, 0)) >= 2
    /\ last.result = 2

\* the places of the children lists of ns: <<q, i>> for the i-th child of q
ChildSlots(ns) ==
    UNION {{<<q, i>> : i \in 1 .. Len(NodeAt(ns, q).children)} : q \in NodeIds(ns)}

\* the ids held at the places slots of the children lists of ns
HeldIds(ns, slots) == {NodeAt(ns, sl[1]).children[sl[2]] : sl \in slots}

RECURSIVE DescendantsFrom(_, _, _)
DescendantsFrom(ns, frontier, seen) ==
    LET next == UNION {SeqToSet(NodeAt(ns, q).children) : q \in frontier} \ seen
    IN IF next = {} THEN seen ELSE DescendantsFrom(ns, next, seen \cup next)

\* the nodes below id: its children, their children, and so on
Descendants(ns, id) == DescendantsFrom(ns, {id}, {})

\* every node but the root is held at a place of a children list and the
\* root at none, no id is held at two places, and no node is below itself
StrictTree(ns) ==
    /\ \E slots \in {ChildSlots(ns)} :
          /\ HeldIds(ns, slots) = NodeIds(ns) \ {0}
          /\ Cardinality(HeldIds(ns, slots)) = Cardinality(slots)
    /\ \A id \in NodeIds(ns) : id \notin Descendants(ns, id)
    /\ Descendants(ns, 0) = NodeIds(ns) \ {0}

\* C14: after any sequence of execute_mcts calls on a tree that started as a
\* single root the structure is a strict tree: every node but the root is
\* held by exactly one children list and exactly once, the root by none, no
\* node is its own descendant, and a children list that is not empty never
\* grows again.
C14_StrictTree ==
    [][ /\ StrictTree(nodes)
        /\ StrictTree(nodes')
        /\ \A id \in NodeIds(nodes) :
              NodeAt(nodes, id).children # <<>> =>
                  NodeAt(nodes', id).children = NodeAt(nodes, id).children ]_vars

\* C14 witness: execute_mcts has expanded a node two levels below the root.
C14_Witness ==
    /\ last.op = "execute_mcts"
    /\ Len(last.branch) >= 3
    /\ NodeAt(nodes, last.leaf).children # <<>>
    /\ Len(NodeAt(nodes, 0).children) >= 2

\* C15: select_branch(root) returns a path that is not empty, starts with
\* root, steps from each node to one of its children and ends on a node with
\* no children; select_next returns no id exactly for the nodes with no
\* children.
C15_SelectBranchIsRootToLeafPath ==
    [][ /\ \A id \in NodeIds(nodes') :
              (select_next(nodes', id) = NoNode)
                  <=> (NodeAt(nodes', id).children = <<>>)
        /\ last'.op = "execute_mcts" =>
              /\ last'.branch = select_branch(nodes, 0)
              /\ Len(last'.branch) >= 1
              /\ last'.branch[1] = 0
              /\ \A i \in 2 .. Len(last'.branch) :
                    last'.branch[i]
                        \in SeqToSet(NodeAt(nodes, last'.branch[i - 1]).children)
              /\ NodeAt(nodes, last'.branch[Len(last'.branch)]).children = <<>> ]_vars

\* C15 witness: select_branch has returned a path of three nodes, through an
\* inner node with several children, down to a node that had no children.
C15_Witness ==
    /\ last.op = "execute_mcts"
    /\ Len(last.branch) = 3
    /\ Len(NodeAt(nodes, last.branch[2]).children) >= 2
    /\ last.branch[3] \in SeqToSet(NodeAt(nodes, last.branch[2]).children)
    /\ last.leaf = last.branch[3]

\* C19: expand_tree(leaf) changes nothing but the children list of the leaf
\* and the tail of the arena: every node that was there keeps its position,
\* side_that_moved, wins and simulations, every node but the leaf keeps its
\* children list, and on a leaf whose position has no legal move the whole
\* arena stays as it was.
C19_ExpandTreeFrame ==
    [][last'.op = "execute_mcts" =>
          /\ Len(nodes') >= Len(nodes)
          /\ \A id \in NodeIds(nodes) :
                /\ NodeAt(nodes', id).position = NodeAt(nodes, id).position
                /\ NodeAt(nodes', id).side_that_moved = NodeAt(nodes, id).side_that_moved
                /\ NodeAt(nodes', id).wins = NodeAt(nodes, id).wins
                /\ NodeAt(nodes', id).simulations = NodeAt(nodes, id).simulations
                /\ id # last'.leaf =>
                      NodeAt(nodes', id).children = NodeAt(nodes, id).children
          /\ legal_moves(NodeAt(nodes, last'.leaf).position) = <<>> =>
                nodes' = nodes ]_vars

\* C19 witness: a node below the root that carried wins has been expanded
\* into several children.
C19_Witness ==
    /\ last.op = "execute_mcts"
    /\ last.leaf # 0
    /\ NodeAt(nodes, last.leaf).wins > 0
    /\ NodeAt(nodes, 0).wins > 0
    /\ Len(NodeAt(nodes, last.leaf).children) >= 2

\* an expansion of a position without legal moves has been asked for
ExpandedTerminal ==
    /\ last.op = "execute_mcts"
    /\ legal_moves(NodeAt(nodes, last.leaf).position) = <<>>

\* C5: expand_tree on a childless leaf with legal moves gives the leaf one
\* child per legal move, in the order of legal_moves(): the i-th child holds
\* the leaf's position with the i-th move played, the side opposite to the
\* leaf's, wins 0, simulations 0 and no children, and the children's ids are
\* the consecutive ids the call appended to the arena.
C5_ExpandTreeMakesOneChildPerMove ==
    [][( /\ last'.op = "execute_mcts"
         /\ NodeAt(nodes, last'.leaf).children = <<>>
         /\ legal_moves(NodeAt(nodes, last'.leaf).position) # <<>> ) =>
          \E moves \in {legal_moves(NodeAt(nodes, last'.leaf).position)} :
              /\ Len(nodes') = Len(nodes) + Len(moves)
              /\ NodeAt(nodes', last'.leaf).children =
                    [i \in 1 .. Len(moves) |-> Len(nodes) + i - 1]
              /\ \A i \in 1 .. Len(moves) :
                    nodes'[Len(nodes) + i] =
                        [side_that_moved |->
                             Not(NodeAt(nodes, last'.leaf).side_that_moved),
                         position |->
                             play_unchecked(NodeAt(nodes, last'.leaf).position, moves[i]),
                         wins |-> 0,
                         simulations |-> 0,
                         children |-> <<>>]]_vars

\* C5 witness: a leaf below the root has been expanded into several children.
C5_Witness ==
    /\ last.op = "execute_mcts"
    /\ last.leaf # 0
    /\ Len(NodeAt(nodes, last.leaf).children) >= 2
    /\ NodeAt(nodes, last.leaf).children[1] + Len(NodeAt(nodes, last.leaf).children)
          = Len(nodes)

====
